---------------------------- MODULE Spec2Model ----------------------------
(***************************************************************************)
(* Model of Visualizer.py, the Lichess player analysis dashboard.          *)
(*                                                                         *)
(* Python values are represented as follows.                               *)
(*   - An optional value (None or v) is a sequence of length 0 or 1:       *)
(*     None is << >> and v is << v >>.                                     *)
(*   - A data frame is the sequence of its rows; a row of the openings     *)
(*     table is a record [ECO, name].                                      *)
(*   - Bulk PGN text is the sequence of its segments; a segment is a       *)
(*     blank filler (empty lines) or one game unit with its tag pairs.     *)
(*     The empty text "" is the empty sequence.                            *)
(*   - A dict is a function; the empty dict is the function with empty     *)
(*     domain.                                                             *)
(*   - An f-string is the tuple of its pieces.                             *)
(***************************************************************************)
EXTENDS Integers, Sequences, FiniteSets, TLC

VARIABLES
    pc,              \* position of the script
    source,          \* content of Chess_Openings.csv: sequence of rows
    cache,           \* st.cache_data store of load_openings: optional table
    openings_df,     \* module global openings_df
    username,        \* value of the text input
    response,        \* the `response` local of each fetch function: optional
    outstanding,     \* HTTP requests issued and not yet answered
    calls,           \* HTTP requests issued in this run, in order
    pgn_data,        \* optional bulk text returned by fetch_games
    pgn_io,          \* StringIO cursor: the segments not yet consumed
    game,            \* optional game unit last returned by read_game
    openings_count,  \* the tally dict of parse_openings_from_pgn
    rating_history,  \* optional list returned by fetch_rating_history
    fmt_idx,         \* index of the current game_format (0 before the loop)
    stats,           \* optional dict returned by fetch_user_stats
    out              \* Streamlit elements emitted in this run, in order

vars == << pc, source, cache, openings_df, username, response, outstanding,
           calls, pgn_data, pgn_io, game, openings_count, rating_history,
           fmt_idx, stats, out >>

-----------------------------------------------------------------------------
(* Bounds of the input spaces *)

MaxRows == 3

MaxGames == 3

-----------------------------------------------------------------------------
(* Python values *)

None == << >>

Some(v) == << v >>

EmptyDict == [k \in {} |-> 0]

RECURSIVE SeqsUpTo(_, _)
SeqsUpTo(S, n) ==
    IF n = 0 THEN { << >> }
    ELSE LET shorter == SeqsUpTo(S, n - 1)
         IN  shorter \cup { Append(s, x) : s \in { t \in shorter : Len(t) = n - 1 }, x \in S }

Range(s) == { s[i] : i \in 1..Len(s) }

-----------------------------------------------------------------------------
(* Chess_Openings.csv and load_openings *)

Codes == { "C20", "B01" }

OpeningNames == { "King's Pawn Game", "Duplicate Row", "Scandinavian Defense" }

\* A row of the CSV: the ECO and name columns. A placeholder row carries its
\* code in the name column as well.
CsvRows == [ECO : Codes, name : OpeningNames \cup Codes]

CsvSources == SeqsUpTo(CsvRows, MaxRows)

\* openings[openings['ECO'] != openings['name']]: boolean-mask row selection,
\* row order kept.
FilterEcoNotName(rows) == SelectSeq(rows, LAMBDA r : r.ECO # r.name)

\* DataFrame.drop_duplicates(subset='ECO', keep='last'): not what the code asks for.
DropDuplicatesKeepLast(rows) ==
    LET keep(i) == \A j \in (i + 1)..Len(rows) : rows[j].ECO # rows[i].ECO
        F[i \in 0..Len(rows)] ==
            IF i = 0 THEN << >>
            ELSE IF keep(i) THEN Append(F[i - 1], rows[i]) ELSE F[i - 1]
    IN  F[Len(rows)]

\* DataFrame.drop_duplicates left out: every row is kept.
DropDuplicatesNone(rows) == rows

\* DataFrame.drop_duplicates(subset='ECO', keep='first'): a row is dropped when
\* an earlier row of the frame has the same ECO; row order kept.
DropDuplicatesKeepFirst(rows) ==
    LET keep(i) == \A j \in 1..(i - 1) : rows[j].ECO # rows[i].ECO
        F[i \in 0..Len(rows)] ==
            IF i = 0 THEN << >>
            ELSE IF keep(i) THEN Append(F[i - 1], rows[i]) ELSE F[i - 1]
    IN  F[Len(rows)]

\* The body of load_openings on the content of the CSV file.
load_openings_body(csv) == DropDuplicatesKeepFirst(FilterEcoNotName(csv))

\* @st.cache_data: the body runs on the first call only; later calls return
\* the stored value.
load_openings(store, csv) ==
    IF store # None THEN store[1] ELSE load_openings_body(csv)

\* Every table load_openings can return.
LoadedTables == { load_openings_body(s) : s \in CsvSources }

-----------------------------------------------------------------------------
(* Bulk PGN text and parse_openings_from_pgn *)

\* An ECO tag value with no row in any table.
UnlistedCode == "A00"

Blank == [kind |-> "blank", headers |-> {}]

Game(tags) == [kind |-> "game", headers |-> tags]

\* Segments of bulk text: filler, a game without an ECO tag, a game with one.
Segments ==
    { Blank, Game({}) } \cup { Game({ << "ECO", c >> }) : c \in Codes \cup { UnlistedCode } }

PgnTexts == SeqsUpTo(Segments, MaxGames)

\* chess.pgn.read_game(pgn_io): skips blank lines, then consumes one game
\* unit; None at the end of the input. Returns the game and the new cursor.
RECURSIVE read_game(_)
read_game(io) ==
    IF io = << >> THEN [game |-> None, io |-> << >>]
    ELSE IF Head(io).kind = "blank" THEN read_game(Tail(io))
    ELSE [game |-> Some(Head(io)), io |-> Tail(io)]

\* game.headers.get(key, default)
HeadersGet(g, key, default) ==
    IF \E p \in g.headers : p[1] = key
    THEN (CHOOSE p \in g.headers : p[1] = key)[2]
    ELSE default

\* openings_df[openings_df['ECO'] == eco]['name'].values
NameValues(df, eco) ==
    LET matching == SelectSeq(df, LAMBDA r : r.ECO = eco)
    IN  [i \in 1..Len(matching) |-> matching[i].name]

\* Lines 40-43 with the increment lost: the count is set to 1 every time.
TallyNoIncrement(count, name) ==
    [k \in DOMAIN count \cup { name } |-> IF k = name THEN 1 ELSE count[k]]

\* Lines 40-43 with the first occurrence restarting the dict.
TallyRestart(count, name) ==
    IF name \in DOMAIN count
    THEN [count EXCEPT ![name] = @ + 1]
    ELSE [k \in { name } |-> 1]

\* Lines 40-43: increment the name's count, starting it at 1.
Tally(count, name) ==
    IF name \in DOMAIN count
    THEN [count EXCEPT ![name] = @ + 1]
    ELSE [k \in DOMAIN count \cup { name } |-> IF k = name THEN 1 ELSE count[k]]

\* Lines 36-43 with the size guard missing: values[0] of an empty array is
\* an IndexError.
TallyGameUnguarded(count, df, g) ==
    LET opening_eco  == HeadersGet(g, "ECO", "")
        opening_name == NameValues(df, opening_eco)
    IN  IF Len(opening_name) > 0
        THEN [raised |-> FALSE, count |-> Tally(count, opening_name[1])]
        ELSE [raised |-> TRUE, count |-> count]

\* Lines 36-43: the loop body for one game.
TallyGame(count, df, g) ==
    LET opening_eco  == HeadersGet(g, "ECO", "")
        opening_name == NameValues(df, opening_eco)
    IN  IF Len(opening_name) > 0
        THEN [raised |-> FALSE, count |-> Tally(count, opening_name[1])]
        ELSE [raised |-> FALSE, count |-> count]

\* parse_openings_from_pgn as a function of its arguments: the loop run to
\* its end from the tally `count` and the cursor `io`.
RECURSIVE ParseLoop(_, _, _)
ParseLoop(count, df, io) ==
    LET r == read_game(io)
    IN  IF r.game = None THEN count
        ELSE ParseLoop(TallyGame(count, df, r.game[1]).count, df, r.io)

parse_openings_from_pgn(text, df) == ParseLoop(EmptyDict, df, text)

-----------------------------------------------------------------------------
(* Streamlit elements *)

Element(w, text, about, data) == [w |-> w, text |-> text, about |-> about, data |-> data]

StTitle(text) == Element("title", text, "", << >>)

StHeader(text, about) == Element("header", text, about, << >>)

StWrite(text, about) == Element("write", text, about, << >>)

StSlider(text, value) == Element("slider", text, "", << value >>)

StExpander(text, about) == Element("expander", text, about, << >>)

StPlotlyChart(text, about, data) == Element("plotly_chart", text, about, data)

-----------------------------------------------------------------------------
(* Remote service *)

max_games == 60

\* st.slider returns its default on the run that first renders it.
SliderDefault == 50

Usernames == { "", "alice" }

game_formats ==
    << "bullet", "blitz", "rapid", "classical", "correspondence",
       "ultraBullet", "crazyhouse", "antichess",
       "horde", "chess960", "kingOfTheHill", "threeCheck", "racingKings" >>

\* str.capitalize(): first character upper-cased, the rest lower-cased.
Capitalize(s) ==
    CASE s = "bullet"         -> "Bullet"
      [] s = "blitz"          -> "Blitz"
      [] s = "rapid"          -> "Rapid"
      [] s = "classical"      -> "Classical"
      [] s = "correspondence" -> "Correspondence"
      [] s = "ultraBullet"    -> "Ultrabullet"
      [] s = "crazyhouse"     -> "Crazyhouse"
      [] s = "antichess"      -> "Antichess"
      [] s = "horde"          -> "Horde"
      [] s = "chess960"       -> "Chess960"
      [] s = "kingOfTheHill"  -> "Kingofthehill"
      [] s = "threeCheck"     -> "Threecheck"
      [] s = "racingKings"    -> "Racingkings"

\* HTTP status codes the service answers with.
Statuses == { 200, 203, 404 }

\* The CSV shipped with the dashboard, reduced to the rows that matter.
ExampleCsv ==
    << [ECO |-> "C20", name |-> "King's Pawn Game"],
       [ECO |-> "C20", name |-> "Duplicate Row"],
       [ECO |-> "B01", name |-> "B01"],
       [ECO |-> "B01", name |-> "Scandinavian Defense"] >>

\* Bodies of the game-history endpoint: no games at all, only line breaks,
\* three games.
GamesBodies ==
    { << >>,
      << Blank >>,
      << Game({ << "ECO", "C20" >> }), Game({ << "ECO", "B01" >> }), Game({ << "ECO", "C20" >> }) >> }

\* Body of the per-format statistics endpoint.
StatsBodies ==
    { [stat |-> [count |-> [all |-> 10, win |-> 5, loss |-> 3, draw |-> 2]]] }

\* Bodies of the rating-history endpoint: a point is (year, month, day, rating).
RatingBodies ==
    { << >>,
      << [name |-> "Bullet", points |-> << << 2024, 0, 15, 1500 >>, << 2024, 1, 2, 1520 >> >>],
         [name |-> "Blitz", points |-> << >>],
         [name |-> "UltraBullet", points |-> << << 2024, 2, 1, 1400 >> >>] >> }

\* What requests.get can return for an endpoint whose 200 bodies are `bodies`:
\* a body comes with 200 and 203, an error page with 404.
Responses(fn, bodies) ==
    { [fn |-> fn, status |-> s, body |-> Some(b)] : s \in { 200, 203 } \cap Statuses, b \in bodies }
    \cup { [fn |-> fn, status |-> s, body |-> None] : s \in Statuses \ { 200, 203 } }

\* fetch_games, lines 22-24
fetch_games(r) == IF r.status = 200 THEN Some(r.body[1]) ELSE None

\* fetch_user_stats with response.ok in place of the comparison with 200.
fetch_user_stats_ok(r) == IF r.status < 400 THEN Some(r.body[1].stat) ELSE None

\* fetch_user_stats, lines 51-53
fetch_user_stats(r) == IF r.status = 200 THEN Some(r.body[1].stat) ELSE None

\* fetch_rating_history, lines 59-61
fetch_rating_history(r) == IF r.status = 200 THEN Some(r.body[1]) ELSE None

\* Truth value of an optional str or list: None and the empty one are false.
Truthy(o) == o # None /\ o[1] # << >>

\* Truth value of an optional dict.
TruthyDict(o) == o # None /\ DOMAIN o[1] # {}

\* DataFrame(items).sort_values(by='Count', ascending=False): every order of
\* the (Opening, Count) rows with non-increasing counts; the order among equal
\* counts is not fixed.
SortedByCount(count) ==
    LET items == { << k, count[k] >> : k \in DOMAIN count }
        n     == Cardinality(items)
    IN  { s \in [1..n -> items] :
            /\ \A i, j \in 1..n : i # j => s[i] # s[j]
            /\ \A i \in 1..(n - 1) : s[i][2] >= s[i + 1][2] }

\* Lines 127-134: one expander and line chart per entry of the rating history
\* named like the capitalized format and having points.
RECURSIVE RatingCharts(_, _)
RatingCharts(history, game_format) ==
    IF history = << >> THEN << >>
    ELSE LET rating == Head(history)
             dates   == [i \in 1..Len(rating.points) |-> rating.points[i][1]]
             ratings == [i \in 1..Len(rating.points) |-> rating.points[i][4]]
             label   == << "Rating Progression in ", Capitalize(game_format) >>
         IN  (IF rating.name = Capitalize(game_format) /\ rating.points # << >>
              THEN << StExpander(label, game_format),
                      StPlotlyChart(label, game_format, << dates, ratings >>) >>
              ELSE << >>)
             \o RatingCharts(Tail(history), game_format)

\* Lines 107-123: the win/loss/draw pie chart.
PieChart(st, game_format) ==
    LET label == << "Win/Loss/Draw Ratio in ", Capitalize(game_format) >>
    IN  << StExpander(label, game_format),
           StPlotlyChart(label, game_format,
                         << << "Win", "Loss", "Draw" >>,
                            << st.count.win, st.count.loss, st.count.draw >> >>) >>

\* Lines 126-136: the rating progression of the format.
RatingSection(history, game_format) ==
    IF Truthy(history)
    THEN RatingCharts(history[1], game_format)
    ELSE << StWrite(<< "No rating data available for ", Capitalize(game_format), "." >>, game_format) >>

StatsNotice(game_format, user) ==
    StWrite(<< "Error fetching ", Capitalize(game_format), " statistics for ", user, "." >>, game_format)

\* Lines 106-138 with the test of stats missing: subscripting None is a TypeError.
RenderFormatUnguarded(st, history, game_format, user) ==
    IF st # None
    THEN [raised |-> FALSE, items |-> PieChart(st[1], game_format) \o RatingSection(history, game_format)]
    ELSE [raised |-> TRUE, items |-> << >>]

\* Lines 106-138: what one format adds to the page after its header.
RenderFormat(st, history, game_format, user) ==
    IF TruthyDict(st)
    THEN [raised |-> FALSE, items |-> PieChart(st[1], game_format) \o RatingSection(history, game_format)]
    ELSE [raised |-> FALSE, items |-> << StatsNotice(game_format, user) >>]

GamesNotice(user) == StWrite(<< "Error fetching games for ", user, "." >>, "")

-----------------------------------------------------------------------------
(* The script, top to bottom *)

\* The run-local state at the top of the script.
FreshRun ==
    /\ pc = "start"
    /\ openings_df = << >>
    /\ username = ""
    /\ response = None
    /\ outstanding = {}
    /\ calls = << >>
    /\ pgn_data = None
    /\ pgn_io = << >>
    /\ game = None
    /\ openings_count = EmptyDict
    /\ rating_history = None
    /\ fmt_idx = 0
    /\ stats = None
    /\ out = << >>

Init ==
    /\ FreshRun
    /\ source = ExampleCsv
    /\ cache = None

\* Line 16: openings_df = load_openings()
ModuleLoad ==
    /\ pc = "start"
    /\ openings_df' = load_openings(cache, source)
    /\ cache' = Some(openings_df')
    /\ pc' = "text_input"
    /\ UNCHANGED << source, username, response, outstanding, calls, pgn_data, pgn_io,
                    game, openings_count, rating_history, fmt_idx, stats, out >>

\* Lines 64-68: the title, the text input and the test of the username.
TextInput ==
    /\ pc = "text_input"
    /\ \E u \in Usernames :
        /\ username' = u
        /\ pc' = IF u # "" THEN "fetch_games" ELSE "done"
    /\ out' = out \o << StTitle(<< "Lichess Player Analysis Dashboard" >>) >>
    /\ UNCHANGED << source, cache, openings_df, response, outstanding, calls, pgn_data,
                    pgn_io, game, openings_count, rating_history, fmt_idx, stats >>

\* requests.get(url): the request leaves and the script blocks on it.
Send(fn, url) ==
    /\ calls' = Append(calls, [fn |-> fn, url |-> url])
    /\ outstanding' = outstanding \cup { Len(calls) + 1 }
    /\ response' = None

\* Lines 70-71, 20-21: fetch_games(username, max_games) up to requests.get.
FetchGamesSend ==
    /\ pc = "fetch_games"
    /\ Send("fetch_games",
            << "https://lichess.org/api/games/user/", username, "?max=", ToString(max_games) >>)
    /\ pc' = "await_games"
    /\ UNCHANGED << source, cache, openings_df, username, pgn_data, pgn_io, game,
                    openings_count, rating_history, fmt_idx, stats, out >>

\* Lines 21-24, 71: the response arrives and fetch_games returns.
FetchGamesReturn ==
    /\ pc = "await_games"
    /\ \E r \in Responses("fetch_games", GamesBodies) :
        /\ response' = Some(r)
        /\ pgn_data' = fetch_games(r)
    /\ outstanding' = {}
    /\ pc' = "if_pgn_data"
    /\ UNCHANGED << source, cache, openings_df, username, calls, pgn_io, game,
                    openings_count, rating_history, fmt_idx, stats, out >>

\* Lines 73-75 and 139-140: the test of pgn_data; the header and the slider,
\* or the notice.
IfPgnData ==
    /\ pc = "if_pgn_data"
    /\ IF Truthy(pgn_data)
       THEN /\ out' = out \o << StHeader(<< "Select Number of Games to analyze" >>, ""),
                                StSlider(<< "Number of games" >>, SliderDefault) >>
            /\ pc' = "parse_call"
       ELSE /\ out' = Append(out, GamesNotice(username))
            /\ pc' = "done"
    /\ UNCHANGED << source, cache, openings_df, username, response, outstanding, calls,
                    pgn_data, pgn_io, game, openings_count, rating_history, fmt_idx, stats >>

\* Lines 78, 28-31: the call of parse_openings_from_pgn up to the loop.
ParseStart ==
    /\ pc = "parse_call"
    /\ openings_count' = EmptyDict
    /\ pgn_io' = pgn_data[1]
    /\ game' = None
    /\ pc' = "parse_loop"
    /\ UNCHANGED << source, cache, openings_df, username, response, outstanding, calls,
                    pgn_data, rating_history, fmt_idx, stats, out >>

\* Lines 32-45: one iteration of the loop; at the end of the input the
\* function returns the tally.
ParseIter ==
    /\ pc = "parse_loop"
    /\ LET r == read_game(pgn_io)
       IN  /\ game' = r.game
           /\ pgn_io' = r.io
           /\ IF r.game = None
              THEN /\ openings_count' = openings_count
                   /\ pc' = "show_openings"
              ELSE LET t == TallyGame(openings_count, openings_df, r.game[1])
                   IN  /\ openings_count' = t.count
                       /\ pc' = IF t.raised THEN "raised" ELSE "parse_loop"
    /\ UNCHANGED << source, cache, openings_df, username, response, outstanding, calls,
                    pgn_data, rating_history, fmt_idx, stats, out >>

\* Lines 81-88: the header and the bar chart of the tally, or the notice.
ShowOpenings ==
    /\ pc = "show_openings"
    /\ LET header == StHeader(<< "Most Played Openings in the last ", ToString(SliderDefault), " games" >>, "")
       IN  IF DOMAIN openings_count # {}
           THEN \E rows \in SortedByCount(openings_count) :
                    out' = out \o << header, StPlotlyChart(<< "Most Played Openings" >>, "", rows) >>
           ELSE out' = out \o << header, StWrite(<< "No openings found." >>, "") >>
    /\ pc' = "fetch_rating"
    /\ UNCHANGED << source, cache, openings_df, username, response, outstanding, calls,
                    pgn_data, pgn_io, game, openings_count, rating_history, fmt_idx, stats >>

\* Lines 91, 57-58: fetch_rating_history(username) up to requests.get.
FetchRatingSend ==
    /\ pc = "fetch_rating"
    /\ Send("fetch_rating_history",
            << "https://lichess.org/api/user/", username, "/rating-history" >>)
    /\ pc' = "await_rating"
    /\ UNCHANGED << source, cache, openings_df, username, pgn_data, pgn_io, game,
                    openings_count, rating_history, fmt_idx, stats, out >>

\* Lines 58-61, 91: the response arrives and fetch_rating_history returns.
FetchRatingReturn ==
    /\ pc = "await_rating"
    /\ \E r \in Responses("fetch_rating_history", RatingBodies) :
        /\ response' = Some(r)
        /\ rating_history' = fetch_rating_history(r)
    /\ outstanding' = {}
    /\ pc' = "format_loop"
    /\ UNCHANGED << source, cache, openings_df, username, calls, pgn_data, pgn_io, game,
                    openings_count, fmt_idx, stats, out >>

\* Lines 100-104, 49-50: the next format, its header, and fetch_user_stats up
\* to requests.get.
ForFormat ==
    /\ pc = "format_loop"
    /\ fmt_idx < Len(game_formats)
    /\ fmt_idx' = fmt_idx + 1
    /\ LET game_format == game_formats[fmt_idx + 1]
       IN  /\ out' = Append(out, StHeader(<< Capitalize(game_format), " Games" >>, game_format))
           /\ Send("fetch_user_stats",
                   << "https://lichess.org/api/user/", username, "/perf/", game_format >>)
    /\ pc' = "await_stats"
    /\ UNCHANGED << source, cache, openings_df, username, pgn_data, pgn_io, game,
                    openings_count, rating_history, stats >>

\* fetch_user_stats retried while it returns None.
FetchStatsReturnRetry ==
    /\ pc = "await_stats"
    /\ \E r \in Responses("fetch_user_stats", StatsBodies) :
        /\ response' = Some(r)
        /\ stats' = fetch_user_stats(r)
        /\ IF fetch_user_stats(r) = None
           THEN /\ calls' = Append(calls, calls[Len(calls)])
                /\ outstanding' = { Len(calls) + 1 }
                /\ pc' = "await_stats"
           ELSE /\ outstanding' = {}
                /\ calls' = calls
                /\ pc' = "render"
    /\ UNCHANGED << source, cache, openings_df, username, pgn_data, pgn_io, game,
                    openings_count, rating_history, fmt_idx, out >>

\* Lines 50-53, 104: the response arrives and fetch_user_stats returns.
FetchStatsReturn ==
    /\ pc = "await_stats"
    /\ \E r \in Responses("fetch_user_stats", StatsBodies) :
        /\ response' = Some(r)
        /\ stats' = fetch_user_stats(r)
    /\ outstanding' = {}
    /\ pc' = "render"
    /\ UNCHANGED << source, cache, openings_df, username, calls, pgn_data, pgn_io, game,
                    openings_count, rating_history, fmt_idx, out >>

\* Lines 106-138 and the loop test of line 100: the charts or the notice of
\* the current format; after the last format the script ends.
RenderStep ==
    /\ pc = "render"
    /\ LET r == RenderFormat(stats, rating_history, game_formats[fmt_idx], username)
       IN  /\ out' = out \o r.items
           /\ pc' = IF r.raised THEN "raised"
                    ELSE IF fmt_idx < Len(game_formats) THEN "format_loop" ELSE "done"
    /\ UNCHANGED << source, cache, openings_df, username, response, outstanding, calls,
                    pgn_data, pgn_io, game, openings_count, rating_history, fmt_idx, stats >>

\* Streamlit runs the script again from the top; only the st.cache_data
\* store survives.
Rerun ==
    /\ pc \in { "done", "raised" }
    /\ pc' = "start"
    /\ openings_df' = << >>
    /\ username' = ""
    /\ response' = None
    /\ outstanding' = {}
    /\ calls' = << >>
    /\ pgn_data' = None
    /\ pgn_io' = << >>
    /\ game' = None
    /\ openings_count' = EmptyDict
    /\ rating_history' = None
    /\ fmt_idx' = 0
    /\ stats' = None
    /\ out' = << >>
    /\ UNCHANGED << source, cache >>

Next ==
    \/ ModuleLoad
    \/ TextInput
    \/ FetchGamesSend
    \/ FetchGamesReturn
    \/ IfPgnData
    \/ ParseStart
    \/ ParseIter
    \/ ShowOpenings
    \/ FetchRatingSend
    \/ FetchRatingReturn
    \/ ForFormat
    \/ FetchStatsReturn
    \/ RenderStep
    \/ Rerun

Spec == Init /\ [][Next]_vars

-----------------------------------------------------------------------------
(* load_openings on every CSV content up to MaxRows rows *)

InitLoad ==
    /\ FreshRun
    /\ source \in CsvSources
    /\ cache = None

NextLoad == ModuleLoad \/ TextInput \/ Rerun

SpecLoad == InitLoad /\ [][NextLoad]_vars

-----------------------------------------------------------------------------
(* parse_openings_from_pgn on every loaded table and every bulk text up to *)
(* MaxGames segments                                                        *)

InitParse ==
    /\ pc = "parse_call"
    /\ source = << >>
    /\ openings_df \in LoadedTables
    /\ cache = Some(openings_df)
    /\ username = "alice"
    /\ response = None
    /\ outstanding = {}
    /\ calls = << >>
    /\ pgn_data \in { Some(t) : t \in PgnTexts }
    /\ pgn_io = << >>
    /\ game = None
    /\ openings_count = EmptyDict
    /\ rating_history = None
    /\ fmt_idx = 0
    /\ stats = None
    /\ out = << >>

NextParse == ParseStart \/ ParseIter

SpecParse == InitParse /\ [][NextParse]_vars

-----------------------------------------------------------------------------
(* Properties of parse_openings_from_pgn, checked under SpecParse *)

\* The bulk text handed to parse_openings_from_pgn.
BulkText == pgn_data[1]

\* The positions of the game units of a text.
GameUnits(text) == { i \in 1..Len(text) : text[i].kind = "game" }

\* The game unit carries an ECO tag whose code has the row `row` in the table.
ResolvesTo(unit, row) == \E p \in unit.headers : p[1] = "ECO" /\ p[2] = row.ECO

\* The game unit has no ECO tag, or its code has no row in the table.
Unresolved(unit, df) == \A row \in Range(df) : ~ResolvesTo(unit, row)

\* The number of game units of the text whose code resolves to `name`.
UnitsNamed(text, df, name) ==
    Cardinality({ i \in GameUnits(text) :
                    \E row \in Range(df) : row.name = name /\ ResolvesTo(text[i], row) })

ParseReturned == pc = "show_openings"

\* C1: the mapping returned by parse_openings_from_pgn has exactly the names
\* to which at least one game unit resolves as keys, each mapped to the number
\* of game units resolving to it; empty text gives the empty mapping, and N >= 1
\* units all carrying one listed code C give exactly {name(C): N}.
C1_ExactCounts ==
    ParseReturned =>
        LET names == { row.name : row \in Range(openings_df) }
        IN  /\ DOMAIN openings_count = { n \in names : UnitsNamed(BulkText, openings_df, n) > 0 }
            /\ \A n \in DOMAIN openings_count :
                   openings_count[n] = UnitsNamed(BulkText, openings_df, n)
            /\ BulkText = << >> => openings_count = EmptyDict
            /\ \A row \in Range(openings_df) :
                   (/\ BulkText # << >>
                    /\ \A i \in 1..Len(BulkText) : BulkText[i] = Game({ << "ECO", row.ECO >> }))
                   => openings_count = [n \in { row.name } |-> Len(BulkText)]

\* Two names are tallied, one of them twice.
C1_Witness ==
    /\ ParseReturned
    /\ Cardinality(DOMAIN openings_count) = 2
    /\ \E n \in DOMAIN openings_count : openings_count[n] = 2

\* A loop iteration that reads a game unit without an ECO tag, or with a code
\* that has no row in the table, leaves the tally as it was and goes on with
\* the loop.
UnresolvedUnitSkipped ==
    (pc = "parse_loop" /\ game' # None /\ Unresolved(game'[1], openings_df))
        => (openings_count' = openings_count /\ pc' = "parse_loop")

\* A text none of whose game units has an ECO tag gives the empty mapping.
NoEcoGivesEmpty ==
    (ParseReturned /\ \A i \in GameUnits(BulkText) : BulkText[i].headers = {})
        => openings_count = EmptyDict

\* C2: a game unit whose ECO tag is absent or whose code is not in the table
\* leaves the tally unchanged and raises nothing; when every game unit lacks
\* an ECO tag the result is the empty mapping.
C2_UnresolvedSkipped == [][UnresolvedUnitSkipped]_vars /\ []NoEcoGivesEmpty

\* An unresolved unit has just been read after a unit that was tallied.
C2_Witness ==
    /\ pc = "parse_loop"
    /\ game # None
    /\ Unresolved(game[1], openings_df)
    /\ openings_count # EmptyDict

\* C3: the mapping returned for the text equals the mapping the function
\* returns for every reordering of the segments of the text.
C3_OrderIndependent ==
    ParseReturned =>
        \A p \in Permutations(1..Len(BulkText)) :
            parse_openings_from_pgn([i \in 1..Len(BulkText) |-> BulkText[p[i]]], openings_df)
                = openings_count

\* Three game units, the first two different, tallied under two names.
C3_Witness ==
    /\ ParseReturned
    /\ Len(BulkText) = 3
    /\ GameUnits(BulkText) = 1..3
    /\ BulkText[1] # BulkText[2]
    /\ Cardinality(DOMAIN openings_count) = 2

-----------------------------------------------------------------------------
(* Properties of load_openings, checked under SpecLoad *)

Loaded == pc # "start"

\* C4: the loaded table has no two entries with the same code and no entry
\* whose code equals its name.
C4_UniqueCodesNoPlaceholder ==
    Loaded =>
        /\ \A i, j \in 1..Len(openings_df) :
               i # j => openings_df[i].ECO # openings_df[j].ECO
        /\ \A i \in 1..Len(openings_df) : openings_df[i].ECO # openings_df[i].name

\* The source repeats a code and has a placeholder row, and something is loaded.
C4_Witness ==
    /\ Loaded
    /\ openings_df # << >>
    /\ \E i, j \in 1..Len(source) : i < j /\ source[i].ECO = source[j].ECO
    /\ \E i \in 1..Len(source) : source[i].ECO = source[i].name

\* The rows of the source carrying the code.
RowsOf(code) == { i \in 1..Len(source) : source[i].ECO = code }

\* The k-th smallest element of a set of positions.
Kth(S, k) == CHOOSE i \in S : Cardinality({ j \in S : j <= i }) = k

\* C5 as stated: for every code with more than one row in the source, the
\* entry of the loaded table for the code is the first row of the source
\* carrying that code.
C5_FirstRowOfSource ==
    Loaded =>
        \A c \in Codes :
            Cardinality(RowsOf(c)) > 1 =>
                \E k \in 1..Len(openings_df) : openings_df[k] = source[Kth(RowsOf(c), 1)]

\* The positions of the source that are loaded: the rows whose name differs
\* from the code and that no earlier such row of the same code precedes.
FirstValidRows ==
    { i \in 1..Len(source) :
        /\ source[i].ECO # source[i].name
        /\ \A j \in 1..(i - 1) :
               source[j].ECO = source[i].ECO => source[j].ECO = source[j].name }

\* C5 as amended: the loaded table is, in source order, the first row of each
\* code among the rows whose name differs from the code.
C5_FirstValidRowInOrder ==
    Loaded =>
        /\ Len(openings_df) = Cardinality(FirstValidRows)
        /\ \A k \in 1..Len(openings_df) : openings_df[k] = source[Kth(FirstValidRows, k)]

\* A code whose first row is a placeholder and whose second row is loaded,
\* followed by a duplicate of the code.
C5_Witness ==
    /\ Loaded
    /\ Len(source) = 3
    /\ source[1].ECO = source[1].name
    /\ source[2].ECO = source[1].ECO
    /\ source[3].ECO = source[1].ECO
    /\ source[3].name \notin { source[2].name, source[3].ECO }
    /\ openings_df = << source[2] >>

-----------------------------------------------------------------------------
(* Properties of the fetch functions and of the script, checked under Spec *)

\* The variable that receives the value returned by the fetch function.
Returned(fn) ==
    CASE fn = "fetch_games"          -> pgn_data
      [] fn = "fetch_user_stats"     -> stats
      [] fn = "fetch_rating_history" -> rating_history

\* The payload the fetch function extracts from a response that has a body.
Payload(r) == IF r.fn = "fetch_user_stats" THEN r.body[1].stat ELSE r.body[1]

\* C6 as stated: a fetch returns the payload when the status is a 2xx one and
\* None exactly when it is not.
C6_PayloadIff2xx ==
    response # None =>
        LET r == response[1]
        IN  IF r.status \in 200..299
            THEN Returned(r.fn) = Some(Payload(r))
            ELSE Returned(r.fn) = None

\* C6 as amended: a fetch returns the payload when the status is 200 and None,
\* without raising, exactly when the status is anything else, 2xx or not.
C6_PayloadIff200 ==
    response # None =>
        LET r == response[1]
        IN  /\ outstanding = {}
            /\ pc # "raised"
            /\ IF r.status = 200
               THEN Returned(r.fn) = Some(Payload(r))
               ELSE Returned(r.fn) = None

\* fetch_user_stats has returned None for a response with a status other
\* than 200.
C6_Witness ==
    /\ response # None
    /\ response[1].fn = "fetch_user_stats"
    /\ response[1].status # 200
    /\ stats = None
    /\ pc = "render"

\* The elements of the page that belong to the format.
About(game_format) == { i \in 1..Len(out) : out[i].about = game_format }

\* The charts of the format on the page, with their expanders.
ChartsOf(game_format) ==
    { i \in About(game_format) : out[i].w \in { "expander", "plotly_chart" } }

HasStatsCall(game_format) ==
    \E i \in 1..Len(calls) :
        calls[i].fn = "fetch_user_stats" /\ calls[i].url[Len(calls[i].url)] = game_format

\* The script is past the rendering of format number fmt_idx.
FormatRendered == fmt_idx >= 1 /\ pc \in { "format_loop", "done", "raised" }

\* C7: when fetch_user_stats returned None for a format, the page gets the
\* notice "Error fetching <Format> statistics for <username>." and no chart of
\* the format, nothing is raised, and the loop goes on: a run that reached the
\* loop ends with the header and the statistics call of every format.
C7_StatsFailureNotice ==
    /\ (FormatRendered /\ stats = None) =>
           /\ pc # "raised"
           /\ out[Len(out)] = StatsNotice(game_formats[fmt_idx], username)
           /\ ChartsOf(game_formats[fmt_idx]) = {}
           /\ fmt_idx < Len(game_formats) => pc = "format_loop"
    /\ (pc = "done" /\ Truthy(pgn_data)) =>
           /\ fmt_idx = Len(game_formats)
           /\ \A k \in 1..Len(game_formats) :
                  /\ HasStatsCall(game_formats[k])
                  /\ \E i \in About(game_formats[k]) : out[i].w = "header"

\* The run ended; the statistics of the first format failed and those of the
\* second format were charted.
C7_Witness ==
    /\ pc = "done"
    /\ StatsNotice("bullet", username) \in Range(out)
    /\ ChartsOf("bullet") = {}
    /\ ChartsOf("blitz") # {}

CallsOf(fn) == { i \in 1..Len(calls) : calls[i].fn = fn }

\* The position of each format in game_formats, 0 for an element of no format.
FormatIndexTable ==
    [f \in Range(game_formats) \cup { "" } |->
        IF f = "" THEN 0 ELSE CHOOSE k \in 1..Len(game_formats) : game_formats[k] = f]

FormatIndex(game_format) == FormatIndexTable[game_format]

\* C9: the remote calls of a run are sequential and never repeated: at most
\* one is outstanding, and then the script waits for it; the game-history call
\* is the first and only one of its kind, the rating-history call the second,
\* and the statistics calls follow, one per format started, in list order;
\* when the statistics call of a format is out, the output of every earlier
\* format is on the page and nothing is added to it afterwards.
C9_SequentialNoRetry ==
    /\ Cardinality(outstanding) <= 1
    /\ outstanding # {} =>
           /\ outstanding = { Len(calls) }
           /\ pc \in { "await_games", "await_rating", "await_stats" }
    /\ Cardinality(CallsOf("fetch_games")) <= 1
    /\ (username # "" /\ pc \notin { "start", "text_input", "fetch_games" }) =>
           CallsOf("fetch_games") = { 1 }
    /\ Cardinality(CallsOf("fetch_rating_history")) <= 1
    /\ CallsOf("fetch_rating_history") \subseteq { 2 }
    /\ CallsOf("fetch_user_stats") = { 2 + k : k \in 1..fmt_idx }
    /\ \A k \in 1..fmt_idx :
           calls[2 + k].url[Len(calls[2 + k].url)] = game_formats[k]
    /\ Cardinality(Range(calls)) = Len(calls)
    /\ { game_formats[k] : k \in 1..(fmt_idx - 1) }
           \subseteq { out[i].about : i \in { j \in 1..Len(out) : out[j].w \in { "write", "plotly_chart" } } }
    /\ \A i \in 1..(Len(out) - 1) :
           FormatIndex(out[i].about) <= FormatIndex(out[i + 1].about)

\* A run that made all fifteen calls although the rating history and the
\* statistics of the first format came back as None.
C9_Witness ==
    /\ pc = "done"
    /\ Len(calls) = 2 + Len(game_formats)
    /\ rating_history = None
    /\ StatsNotice("bullet", username) \in Range(out)

\* The rating history has an entry with points for the format.
HasRatingPoints(game_format) ==
    /\ rating_history # None
    /\ \E i \in 1..Len(rating_history[1]) :
           /\ rating_history[1][i].name = Capitalize(game_format)
           /\ rating_history[1][i].points # << >>

\* C8: a failed call suppresses only the output derived from it: a failed
\* game-history call does not prevent the rating and statistics fetches, a
\* failed statistics call does not suppress the rating progression chart of
\* the format, a failed rating-history call does not suppress the pie chart.
C8_FailureIsolation ==
    /\ (pc = "done" /\ response # None /\ response[1].fn = "fetch_games"
            /\ response[1].status \notin 200..299) =>
           /\ CallsOf("fetch_rating_history") # {}
           /\ CallsOf("fetch_user_stats") # {}
    /\ (FormatRendered /\ stats = None /\ HasRatingPoints(game_formats[fmt_idx])) =>
           \E i \in ChartsOf(game_formats[fmt_idx]) :
               out[i].text[1] = "Rating Progression in "
    /\ (FormatRendered /\ stats # None /\ rating_history = None) =>
           \E i \in ChartsOf(game_formats[fmt_idx]) :
               out[i].text[1] = "Win/Loss/Draw Ratio in "

\* C10: the notice "Error fetching games for <username>." is on the page if
\* and only if the game-history call returned a non-success status; a call
\* answered 200 with empty text is not reported as a failure and goes on to
\* the aggregation and the other fetches.
C10_GamesNoticeIffFailure ==
    (pc \in { "parse_call", "done" } /\ response # None /\ response[1].fn = "fetch_games") =>
        LET r == response[1]
        IN  /\ r.status = 200 => GamesNotice(username) \notin Range(out)
            /\ r.status \notin 200..299 => GamesNotice(username) \in Range(out)
            /\ (r.status = 200 /\ r.body[1] = << >>) => pc = "parse_call"

=============================================================================
